---------------------------- MODULE Spec2Model ----------------------------
(***************************************************************************)
(* Model of the BlueNRG-LP HAL RNG driver (rf_driver_hal_rng_v168.c) and   *)
(* of the UART extension constants and macros (rf_driver_hal_uart_ex.h).   *)
(*                                                                         *)
(* The RNG handle is used from two execution contexts: "main" and one      *)
(* interrupt level "isr".  An interrupt service routine runs to completion *)
(* while main is suspended, so main takes a step only while isr is idle.   *)
(* Every driver function is cut into steps at its reads of hardware        *)
(* (the poll loops) so that the hardware, the tick counter and the         *)
(* interrupt level can act in between.                                     *)
(***************************************************************************)
EXTENDS Integers, FiniteSets, Sequences, TLC

(* ------------------------------ bounds --------------------------------- *)

\* Values the 32-bit value register delivers: 0..MaxVal.
MaxVal == 1

\* Sampling clock dividers the caller configures: 0..MaxDiv.
MaxDiv == 1

\* Number of tick increments in one behaviour.
MaxTicks == 3

\* Number of interrupts that call the driver in one behaviour.
MaxIrq == 1

Values == 0..MaxVal

Dividers == 0..MaxDiv

(* --------------------------- program constants ------------------------- *)

RNG_TIMEOUT_VALUE == 2

HAL_RNG_ERROR_NONE == {}

HAL_RNG_ERROR_TIMEOUT == {"TIMEOUT"}

Ctx == {"main", "isr"}

(* ----------------------- UART extension constants --------------------- *)

\* A 32-bit register value is the set of the names of its bits that are set:
\* | is \cup, & is \cap.  The bits of the threshold fields and of the word
\* length field come from the device header.
USART_CR3_TXFTCFG_0 == {"TXFTCFG_0"}

USART_CR3_TXFTCFG_1 == {"TXFTCFG_1"}

USART_CR3_TXFTCFG_2 == {"TXFTCFG_2"}

USART_CR3_TXFTCFG ==
  USART_CR3_TXFTCFG_0 \cup USART_CR3_TXFTCFG_1 \cup USART_CR3_TXFTCFG_2

USART_CR3_RXFTCFG_0 == {"RXFTCFG_0"}

USART_CR3_RXFTCFG_1 == {"RXFTCFG_1"}

USART_CR3_RXFTCFG_2 == {"RXFTCFG_2"}

USART_CR3_RXFTCFG ==
  USART_CR3_RXFTCFG_0 \cup USART_CR3_RXFTCFG_1 \cup USART_CR3_RXFTCFG_2

USART_CR1_M_0 == {"M0"}

USART_CR1_M_1 == {"M1"}

USART_CR1_FIFOEN == {"FIFOEN"}

UART_WORDLENGTH_7B == USART_CR1_M_1

UART_WORDLENGTH_8B == {}

UART_WORDLENGTH_9B == USART_CR1_M_0

UART_FIFOMODE_DISABLE == {}

UART_FIFOMODE_ENABLE == USART_CR1_FIFOEN

UART_TXFIFO_THRESHOLD_1_8 == {}

UART_TXFIFO_THRESHOLD_1_4 == USART_CR3_TXFTCFG_0

UART_TXFIFO_THRESHOLD_1_2 == USART_CR3_TXFTCFG_1

\* the 3/4 level with one of its two bits left out
TXFIFO_THRESHOLD_3_4_OneBit == USART_CR3_TXFTCFG_1

UART_TXFIFO_THRESHOLD_3_4 == USART_CR3_TXFTCFG_0 \cup USART_CR3_TXFTCFG_1

UART_TXFIFO_THRESHOLD_7_8 == USART_CR3_TXFTCFG_2

UART_TXFIFO_THRESHOLD_8_8 == USART_CR3_TXFTCFG_2 \cup USART_CR3_TXFTCFG_0

UART_RXFIFO_THRESHOLD_1_8 == {}

UART_RXFIFO_THRESHOLD_1_4 == USART_CR3_RXFTCFG_0

UART_RXFIFO_THRESHOLD_1_2 == USART_CR3_RXFTCFG_1

UART_RXFIFO_THRESHOLD_3_4 == USART_CR3_RXFTCFG_0 \cup USART_CR3_RXFTCFG_1

UART_RXFIFO_THRESHOLD_7_8 == USART_CR3_RXFTCFG_2

UART_RXFIFO_THRESHOLD_8_8 == USART_CR3_RXFTCFG_2 \cup USART_CR3_RXFTCFG_0

IS_UART_WORD_LENGTH(l) ==
  \/ l = UART_WORDLENGTH_7B
  \/ l = UART_WORDLENGTH_8B
  \/ l = UART_WORDLENGTH_9B

IS_UART_TXFIFO_THRESHOLD(t) ==
  \/ t = UART_TXFIFO_THRESHOLD_1_8
  \/ t = UART_TXFIFO_THRESHOLD_1_4
  \/ t = UART_TXFIFO_THRESHOLD_1_2
  \/ t = UART_TXFIFO_THRESHOLD_3_4
  \/ t = UART_TXFIFO_THRESHOLD_7_8
  \/ t = UART_TXFIFO_THRESHOLD_8_8

IS_UART_RXFIFO_THRESHOLD(t) ==
  \/ t = UART_RXFIFO_THRESHOLD_1_8
  \/ t = UART_RXFIFO_THRESHOLD_1_4
  \/ t = UART_RXFIFO_THRESHOLD_1_2
  \/ t = UART_RXFIFO_THRESHOLD_3_4
  \/ t = UART_RXFIFO_THRESHOLD_7_8
  \/ t = UART_RXFIFO_THRESHOLD_8_8

\* the six levels by name
Levels == {"1_8", "1_4", "1_2", "3_4", "7_8", "8_8"}

\* the constant an application passes for a level
TxThreshold(l) ==
  CASE l = "1_8" -> UART_TXFIFO_THRESHOLD_1_8
    [] l = "1_4" -> UART_TXFIFO_THRESHOLD_1_4
    [] l = "1_2" -> UART_TXFIFO_THRESHOLD_1_2
    [] l = "3_4" -> UART_TXFIFO_THRESHOLD_3_4
    [] l = "7_8" -> UART_TXFIFO_THRESHOLD_7_8
    [] l = "8_8" -> UART_TXFIFO_THRESHOLD_8_8

RxThreshold(l) ==
  CASE l = "1_8" -> UART_RXFIFO_THRESHOLD_1_8
    [] l = "1_4" -> UART_RXFIFO_THRESHOLD_1_4
    [] l = "1_2" -> UART_RXFIFO_THRESHOLD_1_2
    [] l = "3_4" -> UART_RXFIFO_THRESHOLD_3_4
    [] l = "7_8" -> UART_RXFIFO_THRESHOLD_7_8
    [] l = "8_8" -> UART_RXFIFO_THRESHOLD_8_8

\* MODIFY_REG(reg, mask, value)
MODIFY_REG(reg, mask, value) == (reg \ mask) \cup value

(* ------------------------------- state --------------------------------- *)

VARIABLES
  State,         \* hrng->State: "RESET", "BUSY", "READY"
  ErrorCode,     \* hrng->ErrorCode: the set of error bits that are set
  Lock,          \* hrng->Lock: "UNLOCKED", "LOCKED"
  RandomNumber,  \* hrng->RandomNumber
  Divider,       \* hrng->Init.SamplingClockDivider
  CED,           \* divider register as LL_RNG_GetSamplingClockEnableDivider reads it
  CEDpend,       \* divider value being resynchronized, <<>> when none
  enabled,       \* RNG enable bit written by __HAL_RNG_ENABLE / __HAL_RNG_DISABLE
  DRDY,          \* RNG_FLAG_DRDY
  VAL,           \* hrng->Instance->VAL
  tick,          \* HAL_GetTick(), 32 bits kept as two 16-bit halves [hi, lo]
  nticks,        \* tick increments so far (history, bounds the behaviour)
  pc,            \* pc[c]: position of context c
  tickstart,     \* tickstart[c]: local of HAL_RNG_GenerateRandomNumber
  status,        \* status[c]: local of HAL_RNG_GenerateRandomNumber
  out,           \* out[c]: the caller's *random32bit, Unset until written
  ret,           \* ret[c]: HAL_StatusTypeDef returned by the call of c
  res,           \* res[c]: values returned by the accessors called by c
  g,             \* g[c]: history of the call of c (what it saw and did)
  last,          \* history of the handle across calls
  nirq,          \* interrupts that called the driver so far (history)
  CR3,           \* USART CR3 as the set of its bits that are set
  CR1,           \* USART CR1 as the set of its bits that are set
  WordLength,    \* huart->Init.WordLength
  Parity,        \* huart->Init.Parity
  Mask,          \* huart->Mask
  fifoSet,       \* history: the levels the TX and RX thresholds were set to
  maskIn         \* history: the Init fields the mask was last computed from
                 \* (l, p) and the number of computations modulo 2 (n)

rngHandle == <<State, ErrorCode, Lock, RandomNumber, Divider>>

rngHw == <<CED, CEDpend, enabled, DRDY, VAL, tick, nticks>>

rngCtx == <<pc, tickstart, status, out, ret, res, g, last, nirq>>

uartVars == <<CR3, CR1, WordLength, Parity, Mask, fifoSet, maskIn>>

vars == <<rngHandle, rngHw, rngCtx, uartVars>>

(* ------------------------- 32-bit tick arithmetic ---------------------- *)

Word16 == 2^16

Tick32(h, l) == [hi |-> h, lo |-> l]

\* t + 1 modulo 2^32
TickInc(t) ==
  IF t.lo = Word16 - 1
  THEN Tick32((t.hi + 1) % Word16, 0)
  ELSE Tick32(t.hi, t.lo + 1)

\* a - b without the wrap: 0 when a is below b
TickSub_NoWrap(a, b) ==
  IF a.hi < b.hi \/ (a.hi = b.hi /\ a.lo < b.lo)
  THEN Tick32(0, 0)
  ELSE LET borrow == IF a.lo < b.lo THEN 1 ELSE 0
       IN  Tick32(a.hi - b.hi - borrow, (a.lo + Word16 - b.lo) % Word16)

\* a - b modulo 2^32 (unsigned subtraction of two uint32_t)
TickSub(a, b) ==
  LET borrow == IF a.lo < b.lo THEN 1 ELSE 0
  IN  Tick32((a.hi + Word16 - b.hi - borrow) % Word16,
             (a.lo + Word16 - b.lo) % Word16)

\* d > n for a 32-bit d and a small constant n
TickGT(d, n) == d.hi > 0 \/ d.lo > n

TickStarts == {Tick32(0, 0), Tick32(Word16 - 1, Word16 - 2)}

(* ----------------------------- histories ------------------------------- *)

Snapshot == [State |-> State, ErrorCode |-> ErrorCode, Lock |-> Lock,
             RandomNumber |-> RandomNumber, enabled |-> enabled]

NoCall == [op |-> "none", null |-> FALSE, pre |-> <<>>,
           chk |-> "none", saw |-> FALSE, tout |-> FALSE,
           nread |-> 0, read |-> 0, fx |-> {}, n0 |-> 0, sawLate |-> FALSE,
           toEarly |-> FALSE, passLate |-> FALSE, atLimit |-> FALSE,
           polled |-> FALSE, readTick |-> FALSE]

NewCall(o, isNull) == [NoCall EXCEPT !.op = o, !.null = isNull,
                                     !.pre = Snapshot]

\* the content of a caller's variable the driver has not written
Unset == <<>>

NoRes == [RandomNumber |-> 0, State |-> "RESET", ErrorCode |-> {}]

\* prev: "Init" when the call that returned last is an Init that returned
\* HAL_OK ("InitTO" when it found the TIMEOUT bit set), "GenTO" when it is a
\* HAL_RNG_GenerateRandomNumber that timed out, else "other";
\* delivered: <<v>> once a HAL_RNG_GenerateRandomNumber has delivered v
NoLast == [prev |-> "other", delivered |-> <<>>]

(* ------------------------------ initial -------------------------------- *)

Init ==
  /\ State = "RESET"
  /\ ErrorCode = HAL_RNG_ERROR_NONE
  /\ Lock = "UNLOCKED"
  /\ RandomNumber = 0
  /\ Divider = 0
  /\ CED = 0
  /\ CEDpend = <<>>
  /\ enabled = FALSE
  /\ DRDY = FALSE
  /\ VAL = 0
  /\ tick \in TickStarts
  /\ nticks = 0
  /\ pc = [c \in Ctx |-> "idle"]
  /\ tickstart = [c \in Ctx |-> Tick32(0, 0)]
  /\ status = [c \in Ctx |-> "HAL_OK"]
  /\ out = [c \in Ctx |-> Unset]
  /\ ret = [c \in Ctx |-> "none"]
  /\ res = [c \in Ctx |-> NoRes]
  /\ g = [c \in Ctx |-> NoCall]
  /\ last = NoLast
  /\ nirq = 0
  /\ CR3 = {}
  /\ CR1 = {}
  /\ WordLength = UART_WORDLENGTH_8B
  /\ Parity = "NONE"
  /\ Mask = 0
  /\ fifoSet = [tx |-> "none", rx |-> "none"]
  /\ maskIn = [l |-> {}, p |-> "none", n |-> 0]

(* ------------------------------ scheduling ----------------------------- *)

\* main runs only while no interrupt service routine is in progress
CanStep(c) == c = "main" => pc["isr"] = "idle"

At(c, l) == pc[c] = l /\ CanStep(c) /\ UNCHANGED nirq

InCall(c) == pc[c] \notin {"idle", "done"}

\* c calls the driver: an interrupt does while main is in a call
Enter(c) ==
  /\ pc[c] = "idle"
  /\ IF c = "isr"
     THEN InCall("main") /\ nirq < MaxIrq /\ nirq' = nirq + 1
     ELSE pc["isr"] = "idle" /\ UNCHANGED nirq

Goto(c, l) == pc' = [pc EXCEPT ![c] = l]

\* the call of c returns r to its caller
Done(c, r) ==
  /\ pc' = [pc EXCEPT ![c] = "done"]
  /\ ret' = [ret EXCEPT ![c] = r]

Effect(c, e) == g' = [g EXCEPT ![c].fx = @ \cup {e}]

(* ------------------------------ hardware ------------------------------- *)

\* the platform tick counter advances (uint32_t, wraps at 2^32); only the
\* poll loop of HAL_RNG_GenerateRandomNumber reads it, so its increments are
\* counted while a poll loop runs
HwTick ==
  /\ \E c \in Ctx : pc[c] \in {"gen_poll", "gen_tchk"}
  /\ nticks < MaxTicks
  /\ tick' = TickInc(tick)
  /\ nticks' = nticks + 1
  /\ UNCHANGED <<CED, CEDpend, enabled, DRDY, VAL>>
  /\ UNCHANGED <<rngHandle, rngCtx, uartVars>>

\* the enabled generator has a new 32-bit value: it sets the data-ready flag
HwDataReady ==
  /\ enabled
  /\ ~DRDY
  /\ DRDY' = TRUE
  /\ VAL' \in Values
  /\ UNCHANGED <<CED, CEDpend, enabled, tick, nticks>>
  /\ UNCHANGED <<rngHandle, rngCtx, uartVars>>

\* the written divider has been resynchronized with the TRNG core clock domain
HwSync ==
  /\ CEDpend # <<>>
  /\ CED' = CEDpend[1]
  /\ CEDpend' = <<>>
  /\ UNCHANGED <<enabled, DRDY, VAL, tick, nticks>>
  /\ UNCHANGED <<rngHandle, rngCtx, uartVars>>

\* LL_RNG_SetSamplingClockEnableDivider: a write made while the previous one
\* is being resynchronized is not taken
WriteCED(d) == CEDpend' = IF CEDpend = <<>> THEN <<d>> ELSE CEDpend

(* ------------------------------ the lock ------------------------------- *)

\* __HAL_LOCK finds the handle locked
HAL_LOCK_Held == Lock = "LOCKED"

\* what __HAL_LOCK makes the function return when the handle is locked
HAL_LOCK_Status == "HAL_BUSY"

(* ----------------------------- HAL_RNG_Init ---------------------------- *)

\* the entry of HAL_RNG_Init marking the lock free whatever State is
Init_Enter_AlwaysUnlocks(c, isNull, d) ==
  /\ Enter(c)
  /\ IF isNull
     THEN /\ g' = [g EXCEPT ![c] = NewCall("Init", TRUE)]
          /\ Done(c, "HAL_ERROR")
          /\ UNCHANGED <<rngHandle>>
     ELSE /\ Divider' = d
          /\ Lock' = "UNLOCKED"
          /\ g' = [g EXCEPT ![c] =
                     [NewCall("Init", FALSE) EXCEPT
                        !.fx = IF State = "RESET" THEN {"MspInit"} ELSE {}]]
          /\ State' = "BUSY"
          /\ Goto(c, "init_loop")
          /\ UNCHANGED <<ErrorCode, RandomNumber, ret>>
  /\ UNCHANGED <<rngHw, tickstart, status, out, res, last, uartVars>>

\* lines 105-124: null check, first initialization, State = BUSY
Init_Enter(c, isNull, d) ==
  /\ Enter(c)
  /\ IF isNull
     THEN /\ g' = [g EXCEPT ![c] = NewCall("Init", TRUE)]
          /\ Done(c, "HAL_ERROR")
          /\ UNCHANGED <<rngHandle>>
     ELSE /\ Divider' = d
          /\ IF State = "RESET"
             THEN /\ Lock' = "UNLOCKED"
                  /\ g' = [g EXCEPT ![c] =
                             [NewCall("Init", FALSE) EXCEPT !.fx = {"MspInit"}]]
             ELSE /\ UNCHANGED Lock
                  /\ g' = [g EXCEPT ![c] = NewCall("Init", FALSE)]
          /\ State' = "BUSY"
          /\ Goto(c, "init_loop")
          /\ UNCHANGED <<ErrorCode, RandomNumber, ret>>
  /\ UNCHANGED <<rngHw, tickstart, status, out, res, last, uartVars>>

\* the divider loop giving up after one write
Init_Loop_OneWrite(c) ==
  /\ At(c, "init_loop")
  /\ IF CED # Divider /\ "WriteCED" \notin g[c].fx
     THEN /\ WriteCED(Divider)
          /\ Effect(c, "WriteCED")
          /\ UNCHANGED <<State, ErrorCode, enabled, pc, ret>>
     ELSE /\ enabled' = TRUE
          /\ Effect(c, "Enable")
          /\ State' = "READY"
          /\ ErrorCode' = HAL_RNG_ERROR_NONE
          /\ Done(c, "HAL_OK")
          /\ UNCHANGED CEDpend
  /\ UNCHANGED <<Lock, RandomNumber, Divider, CED, DRDY, VAL, tick, nticks>>
  /\ UNCHANGED <<tickstart, status, out, res, last, uartVars>>

\* lines 127-143: the divider loop, then enable, State = READY, ErrorCode = NONE
Init_Loop(c) ==
  /\ At(c, "init_loop")
  /\ IF CED # Divider
     THEN /\ WriteCED(Divider)
          /\ Effect(c, "WriteCED")
          /\ UNCHANGED <<State, ErrorCode, enabled, pc, ret>>
     ELSE /\ enabled' = TRUE
          /\ Effect(c, "Enable")
          /\ State' = "READY"
          /\ ErrorCode' = HAL_RNG_ERROR_NONE
          /\ Done(c, "HAL_OK")
          /\ UNCHANGED CEDpend
  /\ UNCHANGED <<Lock, RandomNumber, Divider, CED, DRDY, VAL, tick, nticks>>
  /\ UNCHANGED <<tickstart, status, out, res, last, uartVars>>

HAL_RNG_Init(c) ==
  \/ \E isNull \in BOOLEAN, d \in Dividers : Init_Enter(c, isNull, d)
  \/ Init_Loop(c)

(* ---------------------------- HAL_RNG_DeInit --------------------------- *)

\* HAL_RNG_DeInit without the null check of line 155
HAL_RNG_DeInit_NoNullCheck(c) ==
  /\ Enter(c)
  /\ \E isNull \in BOOLEAN :
       /\ g' = [g EXCEPT ![c] =
                  [NewCall("DeInit", isNull) EXCEPT
                     !.fx = {"MspDeInit", "Disable"}]]
       /\ enabled' = FALSE
       /\ State' = "RESET"
       /\ ErrorCode' = HAL_RNG_ERROR_NONE
       /\ Lock' = "UNLOCKED"
       /\ Done(c, "HAL_OK")
  /\ UNCHANGED <<RandomNumber, Divider, CED, CEDpend, DRDY, VAL, tick, nticks>>
  /\ UNCHANGED <<tickstart, status, out, res, last, uartVars>>

\* HAL_RNG_DeInit without line 167: State is not reset
HAL_RNG_DeInit_KeepsState(c) ==
  /\ Enter(c)
  /\ \E isNull \in BOOLEAN :
       IF isNull
       THEN /\ g' = [g EXCEPT ![c] = NewCall("DeInit", TRUE)]
            /\ Done(c, "HAL_ERROR")
            /\ UNCHANGED <<ErrorCode, Lock, enabled>>
       ELSE /\ g' = [g EXCEPT ![c] =
                       [NewCall("DeInit", FALSE) EXCEPT
                          !.fx = {"MspDeInit", "Disable"}]]
            /\ enabled' = FALSE
            /\ ErrorCode' = HAL_RNG_ERROR_NONE
            /\ Lock' = "UNLOCKED"
            /\ Done(c, "HAL_OK")
  /\ UNCHANGED <<State, RandomNumber, Divider, CED, CEDpend, DRDY, VAL>>
  /\ UNCHANGED <<tick, nticks, tickstart, status, out, res, last, uartVars>>

HAL_RNG_DeInit(c) ==
  /\ Enter(c)
  /\ \E isNull \in BOOLEAN :
       IF isNull
       THEN /\ g' = [g EXCEPT ![c] = NewCall("DeInit", TRUE)]
            /\ Done(c, "HAL_ERROR")
            /\ UNCHANGED <<State, ErrorCode, Lock, enabled>>
       ELSE /\ g' = [g EXCEPT ![c] =
                       [NewCall("DeInit", FALSE) EXCEPT
                          !.fx = {"MspDeInit", "Disable"}]]
            /\ enabled' = FALSE
            /\ State' = "RESET"
            /\ ErrorCode' = HAL_RNG_ERROR_NONE
            /\ Lock' = "UNLOCKED"
            /\ Done(c, "HAL_OK")
  /\ UNCHANGED <<RandomNumber, Divider, CED, CEDpend, DRDY, VAL, tick, nticks>>
  /\ UNCHANGED <<tickstart, status, out, res, last, uartVars>>

(* --------------------- HAL_RNG_GenerateRandomNumber -------------------- *)

\* the entry taking the lock without testing it
Gen_Lock_NoTest(c) ==
  /\ Enter(c)
  /\ status' = [status EXCEPT ![c] = "HAL_OK"]
  /\ g' = [g EXCEPT ![c] = NewCall("Generate", FALSE)]
  /\ Lock' = "LOCKED"
  /\ Goto(c, "gen_check")
  /\ UNCHANGED <<ret, State, ErrorCode, RandomNumber, Divider>>
  /\ UNCHANGED <<rngHw, tickstart, out, res, last, uartVars>>

\* lines 239-243: status = HAL_OK, __HAL_LOCK
Gen_Lock(c) ==
  /\ Enter(c)
  /\ status' = [status EXCEPT ![c] = "HAL_OK"]
  /\ IF HAL_LOCK_Held
     THEN /\ g' = [g EXCEPT ![c] = NewCall("Generate", FALSE)]
          /\ Done(c, HAL_LOCK_Status)
          /\ UNCHANGED Lock
     ELSE /\ g' = [g EXCEPT ![c] = NewCall("Generate", FALSE)]
          /\ Lock' = "LOCKED"
          /\ Goto(c, "gen_check")
          /\ UNCHANGED ret
  /\ UNCHANGED <<State, ErrorCode, RandomNumber, Divider>>
  /\ UNCHANGED <<rngHw, tickstart, out, res, last, uartVars>>

\* the function without the state check of line 246
Gen_Check_AnyState(c) ==
  /\ At(c, "gen_check")
  /\ State' = "BUSY"
  /\ tickstart' = [tickstart EXCEPT ![c] = tick]
  /\ g' = [g EXCEPT ![c].chk = State, ![c].n0 = nticks,
                    ![c].readTick = TRUE]
  /\ Goto(c, "gen_poll")
  /\ UNCHANGED <<status, ErrorCode, Lock, RandomNumber, Divider>>
  /\ UNCHANGED <<rngHw, out, ret, res, last, uartVars>>

\* the else branch of the state check recording an error in ErrorCode
Gen_Check_SetsError(c) ==
  /\ At(c, "gen_check")
  /\ IF State = "READY"
     THEN /\ State' = "BUSY"
          /\ tickstart' = [tickstart EXCEPT ![c] = tick]
          /\ g' = [g EXCEPT ![c].chk = State, ![c].n0 = nticks,
                            ![c].readTick = TRUE]
          /\ Goto(c, "gen_poll")
          /\ UNCHANGED <<status, ErrorCode>>
     ELSE /\ status' = [status EXCEPT ![c] = "HAL_ERROR"]
          /\ ErrorCode' = ErrorCode \cup HAL_RNG_ERROR_TIMEOUT
          /\ g' = [g EXCEPT ![c].chk = State]
          /\ Goto(c, "gen_unlock")
          /\ UNCHANGED <<State, tickstart>>
  /\ UNCHANGED <<Lock, RandomNumber, Divider>>
  /\ UNCHANGED <<rngHw, out, ret, res, last, uartVars>>

\* lines 246-252 and 273-276: the state check, State = BUSY, tickstart
Gen_Check(c) ==
  /\ At(c, "gen_check")
  /\ IF State = "READY"
     THEN /\ State' = "BUSY"
          /\ tickstart' = [tickstart EXCEPT ![c] = tick]
          /\ g' = [g EXCEPT ![c].chk = State, ![c].n0 = nticks,
                            ![c].readTick = TRUE]
          /\ Goto(c, "gen_poll")
          /\ UNCHANGED status
     ELSE /\ status' = [status EXCEPT ![c] = "HAL_ERROR"]
          /\ g' = [g EXCEPT ![c].chk = State]
          /\ Goto(c, "gen_unlock")
          /\ UNCHANGED <<State, tickstart>>
  /\ UNCHANGED <<ErrorCode, Lock, RandomNumber, Divider>>
  /\ UNCHANGED <<rngHw, out, ret, res, last, uartVars>>

\* more than RNG_TIMEOUT_VALUE tick increments have happened since the call
\* of c sampled tickstart (counted in nticks, not in the 32-bit counter)
Late(c) == nticks - g[c].n0 > RNG_TIMEOUT_VALUE

\* exactly RNG_TIMEOUT_VALUE tick increments have happened since then
AtLimit(c) == nticks - g[c].n0 = RNG_TIMEOUT_VALUE

\* line 255: the loop condition reads the data-ready flag
Gen_Poll(c) ==
  /\ At(c, "gen_poll")
  /\ IF DRDY
     THEN /\ g' = [g EXCEPT ![c].saw = TRUE, ![c].sawLate = Late(c),
                            ![c].polled = TRUE]
          /\ Goto(c, "gen_read")
     ELSE /\ Goto(c, "gen_tchk")
          /\ g' = [g EXCEPT ![c].polled = TRUE]
  /\ UNCHANGED <<rngHandle, rngHw, tickstart, status, out, ret, res, last>>
  /\ UNCHANGED uartVars

\* the timeout test with >= in place of >
Timeout_AtLimit(c) ==
  TickGT(TickSub(tick, tickstart[c]), RNG_TIMEOUT_VALUE - 1)

\* the timeout test against a tick that is not read again
Timeout_TickFrozen(c) ==
  TickGT(TickSub(tickstart[c], tickstart[c]), RNG_TIMEOUT_VALUE)

\* line 257: the timeout test on the 32-bit tick difference
Timeout(c) == TickGT(TickSub(tick, tickstart[c]), RNG_TIMEOUT_VALUE)

Gen_TimeoutCheck(c) ==
  /\ At(c, "gen_tchk")
  /\ IF Timeout(c)
     THEN /\ g' = [g EXCEPT ![c].toEarly = ~Late(c)]
          /\ Goto(c, "gen_timeout")
     ELSE /\ g' = [g EXCEPT ![c].passLate = @ \/ Late(c),
                            ![c].atLimit = AtLimit(c)]
          /\ Goto(c, "gen_poll")
  /\ UNCHANGED <<rngHandle, rngHw, tickstart, status, out, ret, res, last>>
  /\ UNCHANGED uartVars

\* the timeout exit returning HAL_TIMEOUT
Gen_Timeout_ReturnsTimeout(c) ==
  /\ At(c, "gen_timeout")
  /\ State' = "READY"
  /\ ErrorCode' = ErrorCode \cup HAL_RNG_ERROR_TIMEOUT
  /\ Lock' = "UNLOCKED"
  /\ g' = [g EXCEPT ![c].tout = TRUE]
  /\ Done(c, "HAL_TIMEOUT")
  /\ UNCHANGED <<RandomNumber, Divider>>
  /\ UNCHANGED <<rngHw, tickstart, status, out, res, last, uartVars>>

\* the timeout exit without line 259: State stays BUSY
Gen_Timeout_StaysBusy(c) ==
  /\ At(c, "gen_timeout")
  /\ ErrorCode' = ErrorCode \cup HAL_RNG_ERROR_TIMEOUT
  /\ Lock' = "UNLOCKED"
  /\ g' = [g EXCEPT ![c].tout = TRUE]
  /\ Done(c, "HAL_ERROR")
  /\ UNCHANGED <<State, RandomNumber, Divider>>
  /\ UNCHANGED <<rngHw, tickstart, status, out, res, last, uartVars>>

\* lines 259-263: the timeout exit
Gen_Timeout(c) ==
  /\ At(c, "gen_timeout")
  /\ State' = "READY"
  /\ ErrorCode' = ErrorCode \cup HAL_RNG_ERROR_TIMEOUT
  /\ Lock' = "UNLOCKED"
  /\ g' = [g EXCEPT ![c].tout = TRUE]
  /\ Done(c, "HAL_ERROR")
  /\ UNCHANGED <<RandomNumber, Divider>>
  /\ UNCHANGED <<rngHw, tickstart, status, out, res, last, uartVars>>

\* the success path clearing the error code
Gen_Read_ClearsError(c) ==
  /\ At(c, "gen_read")
  /\ RandomNumber' = VAL
  /\ DRDY' = FALSE
  /\ out' = [out EXCEPT ![c] = VAL]
  /\ State' = "READY"
  /\ ErrorCode' = HAL_RNG_ERROR_NONE
  /\ g' = [g EXCEPT ![c].nread = @ + 1, ![c].read = VAL]
  /\ last' = [last EXCEPT !.delivered = <<VAL>>]
  /\ Goto(c, "gen_unlock")
  /\ UNCHANGED <<Lock, Divider>>
  /\ UNCHANGED <<CED, CEDpend, enabled, VAL, tick, nticks>>
  /\ UNCHANGED <<tickstart, status, ret, res, uartVars>>

\* the success path reading the value register a second time for the caller
Gen_Read_TwoReads(c) ==
  /\ At(c, "gen_read")
  /\ RandomNumber' = VAL
  /\ DRDY' = FALSE
  /\ out' = [out EXCEPT ![c] = VAL]
  /\ State' = "READY"
  /\ g' = [g EXCEPT ![c].nread = @ + 2, ![c].read = VAL]
  /\ last' = [last EXCEPT !.delivered = <<VAL>>]
  /\ Goto(c, "gen_unlock")
  /\ UNCHANGED <<ErrorCode, Lock, Divider>>
  /\ UNCHANGED <<CED, CEDpend, enabled, VAL, tick, nticks>>
  /\ UNCHANGED <<tickstart, status, ret, res, uartVars>>

\* lines 268-271: read VAL (the read clears the data-ready flag), deliver it
Gen_Read(c) ==
  /\ At(c, "gen_read")
  /\ RandomNumber' = VAL
  /\ DRDY' = FALSE
  /\ out' = [out EXCEPT ![c] = VAL]
  /\ State' = "READY"
  /\ g' = [g EXCEPT ![c].nread = @ + 1, ![c].read = VAL]
  /\ last' = [last EXCEPT !.delivered = <<VAL>>]
  /\ Goto(c, "gen_unlock")
  /\ UNCHANGED <<ErrorCode, Lock, Divider>>
  /\ UNCHANGED <<CED, CEDpend, enabled, VAL, tick, nticks>>
  /\ UNCHANGED <<tickstart, status, ret, res, uartVars>>

\* the exit without __HAL_UNLOCK
Gen_Unlock_KeepsLock(c) ==
  /\ At(c, "gen_unlock")
  /\ Done(c, status[c])
  /\ UNCHANGED <<State, ErrorCode, Lock, RandomNumber, Divider>>
  /\ UNCHANGED <<rngHw, tickstart, status, out, res, g, last, uartVars>>

\* lines 279-281: __HAL_UNLOCK, return status
Gen_Unlock(c) ==
  /\ At(c, "gen_unlock")
  /\ Lock' = "UNLOCKED"
  /\ Done(c, status[c])
  /\ UNCHANGED <<State, ErrorCode, RandomNumber, Divider>>
  /\ UNCHANGED <<rngHw, tickstart, status, out, res, g, last, uartVars>>

HAL_RNG_GenerateRandomNumber(c) ==
  \/ Gen_Lock(c)
  \/ Gen_Check(c)
  \/ Gen_Poll(c)
  \/ Gen_TimeoutCheck(c)
  \/ Gen_Timeout(c)
  \/ Gen_Read(c)
  \/ Gen_Unlock(c)

(* ------------------------------ accessors ------------------------------ *)

Accessor(c, o, f, v) ==
  /\ Enter(c)
  /\ g' = [g EXCEPT ![c] = NewCall(o, FALSE)]
  /\ res' = [res EXCEPT ![c][f] = v]
  /\ Goto(c, "done")
  /\ UNCHANGED <<rngHandle, rngHw, tickstart, status, out, ret, last, uartVars>>

\* HAL_RNG_ReadLastRandomNumber reading the value register, not the handle
ReadLast_ReadsRegister(c) == Accessor(c, "ReadLast", "RandomNumber", VAL)

\* HAL_RNG_ReadLastRandomNumber reading the value register: the read clears
\* the data-ready flag
ReadLast_ClearsFlag(c) ==
  /\ Enter(c)
  /\ g' = [g EXCEPT ![c] = NewCall("ReadLast", FALSE)]
  /\ res' = [res EXCEPT ![c]["RandomNumber"] = VAL]
  /\ DRDY' = FALSE
  /\ Goto(c, "done")
  /\ UNCHANGED <<rngHandle, CED, CEDpend, enabled, VAL, tick, nticks>>
  /\ UNCHANGED <<tickstart, status, out, ret, last, uartVars>>

HAL_RNG_ReadLastRandomNumber(c) ==
  Accessor(c, "ReadLast", "RandomNumber", RandomNumber)

HAL_RNG_GetState(c) == Accessor(c, "GetState", "State", State)

HAL_RNG_GetError(c) == Accessor(c, "GetError", "ErrorCode", ErrorCode)

(* ------------------------------- callers ------------------------------- *)

\* the caller of c takes the result; its locals go out of scope
Return(c) ==
  /\ At(c, "done")
  /\ Goto(c, "idle")
  /\ last' = [last EXCEPT !.prev =
                  IF g[c].op = "Init" /\ ~g[c].null /\ ret[c] = "HAL_OK"
                  THEN IF "TIMEOUT" \in g[c].pre.ErrorCode
                       THEN "InitTO" ELSE "Init"
                  ELSE IF g[c].op = "Generate" /\ g[c].tout
                       THEN "GenTO" ELSE "other"]
  /\ g' = [g EXCEPT ![c] = NoCall]
  /\ ret' = [ret EXCEPT ![c] = "none"]
  /\ res' = [res EXCEPT ![c] = NoRes]
  /\ out' = [out EXCEPT ![c] = Unset]
  /\ status' = [status EXCEPT ![c] = "HAL_OK"]
  /\ tickstart' = [tickstart EXCEPT ![c] = Tick32(0, 0)]
  /\ UNCHANGED <<rngHandle, rngHw, uartVars>>

\* the calls main makes
Main ==
  \/ HAL_RNG_Init("main")
  \/ HAL_RNG_DeInit("main")
  \/ HAL_RNG_GenerateRandomNumber("main")
  \/ HAL_RNG_ReadLastRandomNumber("main")
  \/ HAL_RNG_GetState("main")
  \/ HAL_RNG_GetError("main")
  \/ Return("main")

\* the calls an interrupt service routine makes while main is in a call;
\* initialization is left to main
Isr ==
  \/ HAL_RNG_DeInit("isr")
  \/ HAL_RNG_GenerateRandomNumber("isr")
  \/ HAL_RNG_ReadLastRandomNumber("isr")
  \/ HAL_RNG_GetState("isr")
  \/ HAL_RNG_GetError("isr")
  \/ Return("isr")

Hardware == HwTick \/ HwDataReady \/ HwSync

\* calls do not overlap: only main calls the driver
SeqNext == Main \/ Hardware

SeqSpec == Init /\ [][SeqNext]_vars

\* one interrupt level preempts main
Next == Main \/ Isr \/ Hardware

Spec == Init /\ [][Next]_vars

\* an interrupt service routine that initializes the handle again while main
\* is inside HAL_RNG_GenerateRandomNumber
IsrInit ==
  \/ g["main"].op = "Generate" /\ HAL_RNG_Init("isr")
  \/ Return("isr")

\* the calls of main that change the handle
MainCalls ==
  \/ HAL_RNG_Init("main")
  \/ HAL_RNG_DeInit("main")
  \/ HAL_RNG_GenerateRandomNumber("main")
  \/ Return("main")

\* an interrupt service routine that calls HAL_RNG_GenerateRandomNumber
\* while the call of main holds the lock
IsrNested ==
  \/ /\ g["main"].op = "Generate"
     /\ Lock = "LOCKED"
     /\ HAL_RNG_GenerateRandomNumber("isr")
  \/ Return("isr")

FairNext == MainCalls \/ IsrNested \/ Hardware

\* the processor keeps executing, the tick counter keeps advancing while it
\* is polled and has increments left, and the divider that was written is
\* eventually resynchronized
Fairness ==
  /\ WF_vars(MainCalls)
  /\ WF_vars(IsrNested)
  /\ WF_vars(HwTick)
  /\ WF_vars(HwSync)

FairSpec == Init /\ [][FairNext]_vars /\ Fairness

ReinitNext == MainCalls \/ IsrInit \/ Hardware

\* main initializes, generates and de-initializes, and the interrupt level
\* calls HAL_RNG_Init
ReinitSpec == Init /\ [][ReinitNext]_vars


(* ---------------------------- UART extension -------------------------- *)

\* HAL_UARTEx_SetTxFifoThreshold(huart, Threshold) with the constant of level l
HAL_UARTEx_SetTxFifoThreshold(l) ==
  /\ IS_UART_TXFIFO_THRESHOLD(TxThreshold(l))
  /\ CR3' = MODIFY_REG(CR3, USART_CR3_TXFTCFG, TxThreshold(l))
  /\ fifoSet' = [fifoSet EXCEPT !.tx = l]
  /\ UNCHANGED <<CR1, WordLength, Parity, Mask, maskIn>>
  /\ UNCHANGED <<rngHandle, rngHw, rngCtx>>

\* HAL_UARTEx_SetRxFifoThreshold(huart, Threshold) with the constant of level l
HAL_UARTEx_SetRxFifoThreshold(l) ==
  /\ IS_UART_RXFIFO_THRESHOLD(RxThreshold(l))
  /\ CR3' = MODIFY_REG(CR3, USART_CR3_RXFTCFG, RxThreshold(l))
  /\ fifoSet' = [fifoSet EXCEPT !.rx = l]
  /\ UNCHANGED <<CR1, WordLength, Parity, Mask, maskIn>>
  /\ UNCHANGED <<rngHandle, rngHw, rngCtx>>

HAL_UARTEx_EnableFifoMode ==
  /\ CR1' = CR1 \cup UART_FIFOMODE_ENABLE
  /\ UNCHANGED <<CR3, WordLength, Parity, Mask, fifoSet, maskIn>>
  /\ UNCHANGED <<rngHandle, rngHw, rngCtx>>

HAL_UARTEx_DisableFifoMode ==
  /\ CR1' = MODIFY_REG(CR1, USART_CR1_FIFOEN, UART_FIFOMODE_DISABLE)
  /\ UNCHANGED <<CR3, WordLength, Parity, Mask, fifoSet, maskIn>>
  /\ UNCHANGED <<rngHandle, rngHw, rngCtx>>

\* the word lengths the two bits of the field can hold, the invalid one included
WordLengths == SUBSET (USART_CR1_M_0 \cup USART_CR1_M_1)

Parities == {"NONE", "EVEN", "ODD"}

\* the application fills huart->Init
UartConfigure ==
  /\ WordLength' \in WordLengths
  /\ Parity' \in Parities
  /\ UNCHANGED <<CR3, CR1, Mask, fifoSet, maskIn>>
  /\ UNCHANGED <<rngHandle, rngHw, rngCtx>>

\* UART_MASK_COMPUTATION with the parity branch of the 7-bit frame left out
MaskOf_SevenBitNoParity(l, p) ==
  IF l = UART_WORDLENGTH_9B
  THEN IF p = "NONE" THEN 511 ELSE 255
  ELSE IF l = UART_WORDLENGTH_8B
       THEN IF p = "NONE" THEN 255 ELSE 127
       ELSE IF l = UART_WORDLENGTH_7B
            THEN 127
            ELSE 0

\* the mask UART_MASK_COMPUTATION stores for word length l and parity p
MaskOf(l, p) ==
  IF l = UART_WORDLENGTH_9B
  THEN IF p = "NONE" THEN 511 ELSE 255
  ELSE IF l = UART_WORDLENGTH_8B
       THEN IF p = "NONE" THEN 255 ELSE 127
       ELSE IF l = UART_WORDLENGTH_7B
            THEN IF p = "NONE" THEN 127 ELSE 63
            ELSE 0

UART_MASK_COMPUTATION ==
  /\ Mask' = MaskOf(WordLength, Parity)
  /\ maskIn' = [l |-> WordLength, p |-> Parity, n |-> 1 - maskIn.n]
  /\ UNCHANGED <<CR3, CR1, WordLength, Parity, fifoSet>>
  /\ UNCHANGED <<rngHandle, rngHw, rngCtx>>

UartNext ==
  \/ \E l \in Levels : HAL_UARTEx_SetTxFifoThreshold(l)
  \/ \E l \in Levels : HAL_UARTEx_SetRxFifoThreshold(l)
  \/ HAL_UARTEx_EnableFifoMode
  \/ HAL_UARTEx_DisableFifoMode
  \/ UartConfigure
  \/ UART_MASK_COMPUTATION

\* the UART extension helper on its own handle
UartSpec == Init /\ [][UartNext]_vars

(* ------------------------------- claims -------------------------------- *)

\* the call of c has returned and was a call of o
Returned(c, o) == pc[c] = "done" /\ g[c].op = o

\* the lock was held when c made its call
LockWasHeld(c) == g[c].pre.Lock = "LOCKED"

\* C1 (SeqSpec): HAL_RNG_GenerateRandomNumber called on a READY handle with
\* the lock free has two outcomes: it returns HAL_OK, has delivered the value
\* it read and stored, and State is READY; or it took the timeout exit, the
\* TIMEOUT bit is set in ErrorCode and State is READY.  No returned call
\* leaves State at BUSY.
C1_GenerateOnReady ==
  Returned("main", "Generate") =>
    /\ State # "BUSY"
    /\ (g["main"].pre.State = "READY" /\ g["main"].pre.Lock = "UNLOCKED") =>
         \/ /\ ret["main"] = "HAL_OK"
            /\ ~g["main"].tout
            /\ out["main"] \in Values
            /\ out["main"] = g["main"].read
            /\ RandomNumber = out["main"]
            /\ State = "READY"
         \/ /\ ret["main"] = "HAL_ERROR"
            /\ g["main"].tout
            /\ "TIMEOUT" \in ErrorCode
            /\ out["main"] = Unset
            /\ State = "READY"

\* a call on a READY handle has timed out, after an earlier one delivered
C1_Witness ==
  /\ Returned("main", "Generate")
  /\ g["main"].pre.State = "READY"
  /\ g["main"].tout
  /\ last.delivered # <<>>

\* C2 (SeqSpec): every HAL_RNG_Init on a handle returns HAL_OK, and the
\* HAL_RNG_DeInit called right after it returns HAL_OK and leaves
\* State = RESET, ErrorCode = NONE and Lock = UNLOCKED, whatever the divider
\* and whatever the handle held before the Init (the TIMEOUT bit included).
C2_InitThenDeInit ==
  /\ (Returned("main", "Init") /\ ~g["main"].null) => ret["main"] = "HAL_OK"
  /\ (Returned("main", "DeInit") /\ ~g["main"].null
        /\ last.prev \in {"Init", "InitTO"}) =>
       /\ ret["main"] = "HAL_OK"
       /\ State = "RESET"
       /\ ErrorCode = HAL_RNG_ERROR_NONE
       /\ Lock = "UNLOCKED"

\* DeInit has returned right after an Init that found the TIMEOUT bit set
\* and had to resynchronize the divider
C2_Witness ==
  /\ Returned("main", "DeInit")
  /\ ~g["main"].null
  /\ last.prev = "InitTO"
  /\ CED = 1

C4_ReadLast ==
  last.delivered # <<>> =>
    /\ RandomNumber = last.delivered[1]
    /\ Returned("main", "ReadLast") =>
         res["main"].RandomNumber = last.delivered[1]

\* ReadLast has returned the value delivered before a DeInit, while the value
\* register already holds another value
C4_Witness ==
  /\ Returned("main", "ReadLast")
  /\ last.delivered = <<1>>
  /\ res["main"].RandomNumber = 1
  /\ State = "RESET"
  /\ VAL = 0


\* C5 (SeqSpec), as amended: with t0 the tick sampled on entry, the call
\* takes the timeout exit only at a tick check that follows a poll which
\* found the flag clear and that is made more than 2 tick increments after
\* t0; no tick check made more than 2 increments after t0 lets the loop go
\* on, so with a flag that never sets the first check at 3 or more
\* increments ends the call; a call that returns HAL_OK has seen the flag
\* set and read the value once.  (A poll that finds the flag set succeeds
\* however many ticks have passed.)
C5_Timing ==
  /\ ~g["main"].passLate
  /\ (pc["main"] = "gen_timeout" \/ g["main"].tout) =>
       /\ ~g["main"].saw
       /\ ~g["main"].toEarly
       /\ nticks - g["main"].n0 > RNG_TIMEOUT_VALUE
  /\ (Returned("main", "Generate") /\ ret["main"] = "HAL_OK") =>
       /\ g["main"].saw
       /\ g["main"].nread = 1
  /\ (Returned("main", "Generate") /\ g["main"].pre.State = "READY") =>
       (ret["main"] = "HAL_OK" <=> ~g["main"].tout)

\* C5 as stated: a call that has not seen the flag set within 2 ticks of t0
\* fails, so a call that succeeds has seen it within 2 ticks; stated for a
\* call whose last tick check was made 2 increments after t0, so that the
\* loop has polled up to the limit
C5_Original ==
  (Returned("main", "Generate") /\ ret["main"] = "HAL_OK"
     /\ g["main"].atLimit) =>
    ~g["main"].sawLate

\* the call has timed out exactly 3 tick increments after t0, across the
\* wrap of the 32-bit counter
C5_Witness ==
  /\ Returned("main", "Generate")
  /\ g["main"].tout
  /\ nticks - g["main"].n0 = 3
  /\ tickstart["main"].hi = Word16 - 1
  /\ tick.hi = 0

\* C6 (Spec), as amended: a driver function returns a failure in four
\* cases: Init or DeInit with a null handle (HAL_ERROR), Generate on a handle
\* that is not READY (HAL_ERROR), Generate whose poll timed out (HAL_ERROR,
\* with the TIMEOUT bit set in ErrorCode) and Generate that found the lock
\* held (it returns from __HAL_LOCK, before the state check).  The status of
\* a timeout is the status of a handle that is not READY; only the TIMEOUT
\* bit tells them apart.
C6_ErrorKinds ==
  \A c \in Ctx :
    (pc[c] = "done" /\ ret[c] # "none") =>
      /\ g[c].null => (g[c].op \in {"Init", "DeInit"} /\ ret[c] = "HAL_ERROR")
      /\ g[c].tout => (ret[c] = "HAL_ERROR" /\ "TIMEOUT" \in ErrorCode)
      /\ ret[c] # "HAL_OK" =>
           \/ g[c].null
           \/ g[c].op = "Generate" /\ g[c].tout
           \/ /\ g[c].op = "Generate"
              /\ g[c].chk \in {"RESET", "BUSY"}
              /\ ret[c] = "HAL_ERROR"
           \/ /\ g[c].op = "Generate"
              /\ LockWasHeld(c)
              /\ g[c].chk = "none"

\* C6 as stated: a failure is returned only for a null handle or for a
\* timeout, and the status of a timeout is one of its own (HAL_TIMEOUT)
C6_Original ==
  \A c \in Ctx :
    (pc[c] = "done" /\ ret[c] \notin {"none", "HAL_OK"}) =>
      \/ g[c].null
      \/ g[c].tout /\ ret[c] = "HAL_TIMEOUT"

\* a Generate of main has timed out and returned HAL_ERROR
C6_Witness ==
  /\ Returned("main", "Generate")
  /\ g["main"].tout
  /\ ret["main"] = "HAL_ERROR"

\* what a step of the interrupt level leaves alone when its Generate call
\* found the lock held
NestedFrame ==
  /\ UNCHANGED <<rngHandle, CED, CEDpend, enabled, DRDY, VAL>>
  /\ pc'["main"] = pc["main"]
  /\ UNCHANGED <<tickstart, status, out>>
  /\ ret'["main"] = ret["main"]
  /\ g'["main"] = g["main"]

\* the nested call has returned: a failure, nothing checked, polled or read,
\* the handle as it found it
C7_NestedHeld ==
  (Returned("isr", "Generate") /\ LockWasHeld("isr")) =>
    /\ ret["isr"] # "HAL_OK"
    /\ g["isr"].chk = "none"
    /\ g["isr"].nread = 0
    /\ ~g["isr"].saw /\ ~g["isr"].tout
    /\ out["isr"] = Unset
    /\ State = g["isr"].pre.State
    /\ ErrorCode = g["isr"].pre.ErrorCode
    /\ RandomNumber = g["isr"].pre.RandomNumber
    /\ Lock = "LOCKED"

\* the interrupted call returns with the lock released
C7_OuterUnlocks ==
  (Returned("main", "Generate") /\ ~LockWasHeld("main")) => Lock = "UNLOCKED"

\* the call and the return of the nested call, each one step
C7_NestedStep ==
  /\ (pc["isr"] = "idle" /\ g'["isr"].op = "Generate" /\ Lock = "LOCKED") =>
       (pc'["isr"] = "done" /\ NestedFrame)
  /\ (Returned("isr", "Generate") /\ LockWasHeld("isr")
        /\ pc'["isr"] = "idle") => NestedFrame

\* C7 (Spec): a HAL_RNG_GenerateRandomNumber that finds the lock held (an
\* interrupt during a Generate of main) returns at once with a failure: it
\* does not reach the state check or the poll loop, reads no value, and
\* neither its call nor its return changes the handle, the registers or
\* anything the interrupted call holds; the interrupted call then returns
\* with the lock released.
C7_Nested == [](C7_NestedHeld /\ C7_OuterUnlocks) /\ [][C7_NestedStep]_vars

\* an interrupt has called Generate while the Generate of main was polling
C7_Witness ==
  /\ Returned("isr", "Generate")
  /\ LockWasHeld("isr")
  /\ pc["main"] = "gen_tchk"
  /\ DRDY

\* a step that clears the TIMEOUT bit is the last step of an Init or a DeInit
C8_ClearedByInitOrDeInit ==
  ("TIMEOUT" \in ErrorCode /\ "TIMEOUT" \notin ErrorCode') =>
    \E c \in Ctx :
      \/ pc[c] = "init_loop" /\ pc'[c] = "done"
      \/ pc[c] = "idle" /\ g'[c].op = "DeInit" /\ ~g'[c].null

\* a call that timed out leaves the handle READY with the lock free, and the
\* Generate called next is rejected neither by the lock nor by the state check
C8_RetryAccepted ==
  /\ (Returned("main", "Generate") /\ g["main"].tout) =>
       (State = "READY" /\ Lock = "UNLOCKED")
  /\ (g["main"].op = "Generate" /\ last.prev = "GenTO") =>
       (ret["main"] # HAL_LOCK_Status /\ g["main"].chk \in {"none", "READY"})

\* C8 (SeqSpec): the TIMEOUT bit, once set by a timeout, stays set through
\* every later Generate and accessor call and is cleared only by Init or
\* DeInit; a timed-out handle is READY with the lock free and the Generate
\* that follows is accepted.
C8_Sticky == []C8_RetryAccepted /\ [][C8_ClearedByInitOrDeInit]_vars

\* a Generate called after a timeout has succeeded and the bit is still set
C8_Witness ==
  /\ Returned("main", "Generate")
  /\ ret["main"] = "HAL_OK"
  /\ "TIMEOUT" \in g["main"].pre.ErrorCode
  /\ "TIMEOUT" \in ErrorCode

\* C9 (SeqSpec): Init and DeInit called with a null handle return HAL_ERROR
\* and do nothing else: no MSP hook is called, the divider register is not
\* written, the peripheral is neither enabled nor disabled and the handle is
\* as it was.
C9_NullHandle ==
  (pc["main"] = "done" /\ g["main"].op \in {"Init", "DeInit"}
     /\ g["main"].null) =>
    /\ ret["main"] = "HAL_ERROR"
    /\ g["main"].fx = {}
    /\ Snapshot = g["main"].pre

\* DeInit with a null handle has returned while the handle is READY and the
\* peripheral enabled
C9_Witness ==
  /\ Returned("main", "DeInit")
  /\ g["main"].null
  /\ State = "READY"
  /\ enabled
  /\ "TIMEOUT" \in ErrorCode


\* the number a 3-bit field holds, from its three bits b0, b1, b2
FieldValue(reg, b0, b1, b2) ==
  (IF b0 \subseteq reg THEN 1 ELSE 0) + (IF b1 \subseteq reg THEN 2 ELSE 0)
    + (IF b2 \subseteq reg THEN 4 ELSE 0)

\* the field value of each level: 1/8, 1/4, 1/2, 3/4, 7/8, 8/8 are 0 to 5
LevelCode(l) ==
  CASE l = "1_8" -> 0 [] l = "1_4" -> 1 [] l = "1_2" -> 2
    [] l = "3_4" -> 3 [] l = "7_8" -> 4 [] l = "8_8" -> 5

TxField == FieldValue(CR3, USART_CR3_TXFTCFG_0, USART_CR3_TXFTCFG_1,
                      USART_CR3_TXFTCFG_2)

RxField == FieldValue(CR3, USART_CR3_RXFTCFG_0, USART_CR3_RXFTCFG_1,
                      USART_CR3_RXFTCFG_2)

\* C10 (UartSpec): after the TX (RX) threshold was set to a level, the TX
\* (RX) field of CR3 reads back the encoding of that level, whatever was set
\* before and whatever the other field holds; the six encodings are pairwise
\* distinct and inside the 3-bit field, 3/4 is the OR of the two lower bits,
\* and the validity macro accepts the six encodings and no other value of
\* the field.
C10_FifoThreshold ==
  /\ fifoSet.tx # "none" =>
       /\ CR3 \cap USART_CR3_TXFTCFG = TxThreshold(fifoSet.tx)
       /\ TxField = LevelCode(fifoSet.tx)
  /\ fifoSet.rx # "none" =>
       /\ CR3 \cap USART_CR3_RXFTCFG = RxThreshold(fifoSet.rx)
       /\ RxField = LevelCode(fifoSet.rx)
  /\ \A l, m \in Levels :
       l # m => (TxThreshold(l) # TxThreshold(m) /\ RxThreshold(l) # RxThreshold(m))
  /\ \A l \in Levels :
       /\ TxThreshold(l) \subseteq USART_CR3_TXFTCFG
       /\ RxThreshold(l) \subseteq USART_CR3_RXFTCFG
  /\ UART_TXFIFO_THRESHOLD_3_4 = USART_CR3_TXFTCFG_0 \cup USART_CR3_TXFTCFG_1
  /\ UART_RXFIFO_THRESHOLD_3_4 = USART_CR3_RXFTCFG_0 \cup USART_CR3_RXFTCFG_1
  /\ {t \in SUBSET USART_CR3_TXFTCFG : IS_UART_TXFIFO_THRESHOLD(t)}
       = {TxThreshold(l) : l \in Levels}
  /\ {t \in SUBSET USART_CR3_RXFTCFG : IS_UART_RXFIFO_THRESHOLD(t)}
       = {RxThreshold(l) : l \in Levels}
  /\ Cardinality({TxThreshold(l) : l \in Levels}) = Cardinality(Levels)
  /\ Cardinality({RxThreshold(l) : l \in Levels}) = Cardinality(Levels)

\* TX was set to 3/4 and RX to 8/8: both fields read back their encodings
C10_Witness ==
  /\ fifoSet = [tx |-> "3_4", rx |-> "8_8"]
  /\ TxField = 3
  /\ RxField = 5
  /\ USART_CR1_FIFOEN \subseteq CR1


\* the registers of the RNG peripheral and the tick counter
rngRegs == <<CED, CEDpend, enabled, DRDY, VAL, tick>>

Accessors == {"ReadLast", "GetState", "GetError"}

\* the call of an accessor by c: the value it returns is the field's, and
\* the handle and the registers are as before
C11_AccessorCall(c) ==
  (pc[c] = "idle" /\ g'[c].op \in Accessors) =>
    /\ UNCHANGED <<rngHandle, rngRegs>>
    /\ g'[c].op = "ReadLast" => res'[c].RandomNumber = RandomNumber
    /\ g'[c].op = "GetState" => res'[c].State = State
    /\ g'[c].op = "GetError" => res'[c].ErrorCode = ErrorCode

\* the return of an accessor to c
C11_AccessorReturn(c) ==
  (pc[c] = "done" /\ g[c].op \in Accessors /\ pc'[c] = "idle") =>
    UNCHANGED <<rngHandle, rngRegs>>

\* C11 (Spec): HAL_RNG_GetState, HAL_RNG_GetError and
\* HAL_RNG_ReadLastRandomNumber return the current State, ErrorCode and
\* RandomNumber and leave every field of the handle and every register
\* unchanged, whatever State is (RESET and BUSY included);
\* HAL_RNG_ReadLastRandomNumber leaves the data-ready flag as it is.
C11_PureAccessors ==
  [][\A c \in Ctx : C11_AccessorCall(c) /\ C11_AccessorReturn(c)]_vars

\* an interrupt has read the last number while the Generate of main had set
\* State to BUSY and the data-ready flag was pending: the flag is still set
C11_Witness ==
  /\ Returned("isr", "ReadLast")
  /\ State = "BUSY"
  /\ DRDY
  /\ VAL # RandomNumber
  /\ res["isr"].RandomNumber = RandomNumber

\* the entry of a HAL_RNG_Init with a handle: the lock is marked free when
\* State is RESET and left alone otherwise
C12_InitEntry(c) ==
  (pc[c] = "idle" /\ g'[c].op = "Init" /\ ~g'[c].null) =>
    /\ Lock' = IF State = "RESET" THEN "UNLOCKED" ELSE Lock
    /\ ("MspInit" \in g'[c].fx) <=> (State = "RESET")

\* HAL_RNG_Init has returned HAL_OK: the hook was called if and only if it
\* found State = RESET
C12_InitReturned(c) ==
  (Returned(c, "Init") /\ ~g[c].null) =>
    /\ ("MspInit" \in g[c].fx) <=> (g[c].pre.State = "RESET")
    /\ ret[c] = "HAL_OK"

\* the step in which HAL_RNG_Init returns: the handle is READY without
\* error, the peripheral enabled and the divider register as requested
C12_InitReturn(c) ==
  (pc[c] = "init_loop" /\ pc'[c] = "done") =>
    /\ ret'[c] = "HAL_OK"
    /\ State' = "READY"
    /\ ErrorCode' = HAL_RNG_ERROR_NONE
    /\ enabled'
    /\ CED' = Divider'

\* C12 (ReinitSpec): HAL_RNG_Init with a handle calls HAL_RNG_MspInit and
\* marks the lock free if and only if State is RESET on entry; otherwise the
\* hook is not called and Lock is left as it is (also when it is LOCKED).
\* When the call returns it returns HAL_OK with State = READY, ErrorCode =
\* NONE, the peripheral enabled and the divider register equal to the
\* requested divider.
C12_InitFirstTime ==
  /\ [](\A c \in Ctx : C12_InitReturned(c))
  /\ [][\A c \in Ctx : C12_InitEntry(c) /\ C12_InitReturn(c)]_vars

\* an interrupt has initialized again a READY handle that the Generate of
\* main had locked: no hook, the lock still held, the new divider in place
C12_Witness ==
  /\ Returned("isr", "Init")
  /\ g["isr"].pre.State = "READY"
  /\ g["isr"].pre.Lock = "LOCKED"
  /\ "MspInit" \notin g["isr"].fx
  /\ Lock = "LOCKED"
  /\ CED = 1
  /\ pc["main"] = "gen_check"


\* HAL_RNG_Init leaves its loop only when the divider register reads back
\* the requested value, and that iteration writes nothing
C13_LoopExit(c) ==
  (pc[c] = "init_loop" /\ pc'[c] = "done") =>
    (CED = Divider /\ CEDpend' = CEDpend)

\* an iteration that reads back another value writes the requested divider
\* and stays in the loop
C13_LoopWrite(c) ==
  (pc[c] = "init_loop" /\ CED # Divider /\ g'[c] # g[c]) =>
    /\ pc'[c] = "init_loop"
    /\ "WriteCED" \in g'[c].fx
    /\ CEDpend' = IF CEDpend = <<>> THEN <<Divider>> ELSE CEDpend

\* the divider register is written only by such an iteration
C13_WriteOnlyOnMismatch ==
  (CEDpend = <<>> /\ CEDpend' # <<>>) =>
    \E c \in Ctx : /\ pc[c] = "init_loop" /\ pc'[c] = "init_loop"
                   /\ CED # Divider
                   /\ CEDpend' = <<Divider>>

\* while main is in the loop State is BUSY, and a call that found the
\* requested value in the register has written nothing
C13_InLoop ==
  /\ pc["main"] = "init_loop" => State = "BUSY"
  /\ (Returned("main", "Init") /\ ~g["main"].null) =>
       /\ CED = Divider
       /\ State = "READY"

\* C13 (FairSpec): the divider loop of HAL_RNG_Init has no bound: an
\* iteration that reads back a value other than the requested one writes the
\* divider again and stays in the loop, an iteration that reads back the
\* requested value writes nothing and leaves, so HAL_RNG_Init returns only
\* after such a read-back and State is BUSY until then; when the hardware
\* eventually takes the written value, HAL_RNG_Init eventually returns
\* HAL_OK.
C13_DividerLoop ==
  /\ []C13_InLoop
  /\ [][C13_WriteOnlyOnMismatch
        /\ \A c \in Ctx : C13_LoopExit(c) /\ C13_LoopWrite(c)]_vars
  /\ (pc["main"] = "init_loop") ~>
       (Returned("main", "Init") /\ ret["main"] = "HAL_OK")

\* HAL_RNG_Init has returned after writing a new divider, and a second
\* HAL_RNG_Init asking for the divider in place has returned without a write
C13_Witness ==
  /\ Returned("main", "Init")
  /\ last.prev \in {"Init", "InitTO"}
  /\ CED = 1
  /\ g["main"].fx = {"Enable"}

\* the poll still has the tick increments of a timeout ahead
TicksLeft(c) == MaxTicks - g[c].n0 > RNG_TIMEOUT_VALUE

PollPcs == {"gen_poll", "gen_tchk"}

\* the poll loop is left only with the flag seen set or through the timeout
C14_LoopExit(c) ==
  /\ (pc[c] \in PollPcs /\ pc'[c] \notin PollPcs) =>
       \/ pc[c] = "gen_poll" /\ DRDY /\ pc'[c] = "gen_read"
       \/ pc[c] = "gen_tchk" /\ Late(c) /\ pc'[c] = "gen_timeout"
  /\ (pc[c] = "gen_tchk" /\ ~Late(c) /\ pc'[c] # pc[c]) => pc'[c] = "gen_poll"

\* a call that found the lock held, or the handle not READY, has not polled
C14_NoPoll(c) ==
  (g[c].op = "Generate" /\ (LockWasHeld(c) \/ g[c].chk \in {"RESET", "BUSY"}))
    => (~g[c].polled /\ ~g[c].readTick /\ pc[c] \in {"gen_unlock", "done"})

\* C14 (FairSpec): with a tick counter that keeps advancing every
\* HAL_RNG_GenerateRandomNumber returns: one that polls leaves the loop by
\* seeing the flag set or by the timeout, one that found the handle not READY
\* or the lock held returns without polling.  The loop is left in no other
\* way, so without a tick and without the flag it does not end.
C14_GenerateReturns ==
  /\ [](\A c \in Ctx : C14_NoPoll(c))
  /\ [](pc["isr"] \in {"idle", "done"})
  /\ [][\A c \in Ctx : C14_LoopExit(c)]_vars
  /\ (\/ pc["main"] \in PollPcs /\ TicksLeft("main")
      \/ pc["main"] = "gen_check" /\ State # "READY"
      \/ pc["main"] \in {"gen_read", "gen_timeout", "gen_unlock"})
       ~> Returned("main", "Generate")

\* a poll that never saw the flag has ended by the timeout
C14_Witness ==
  /\ Returned("main", "Generate")
  /\ g["main"].tout
  /\ g["main"].polled
  /\ ~DRDY
  /\ nirq > 0


\* a returned call: a success has read the register once, after it saw the
\* flag, and stored and delivered that value; a failure has read nothing
C15_Reads(c) ==
  Returned(c, "Generate") =>
    IF ret[c] = "HAL_OK"
    THEN /\ g[c].nread = 1
         /\ g[c].saw
         /\ out[c] = g[c].read
         /\ RandomNumber = g[c].read
    ELSE /\ g[c].nread = 0
         /\ out[c] = Unset

\* the register is read, and so the flag cleared, only by a call that has
\* seen the flag set, has not read yet, and will return HAL_OK
C15_ReadStep ==
  (\/ DRDY /\ ~DRDY'
   \/ \E c \in Ctx : g[c].op = "Generate" /\ g'[c].op = "Generate"
                     /\ g'[c].nread # g[c].nread) =>
    \E c \in Ctx :
      /\ pc[c] = "gen_read" /\ pc'[c] = "gen_unlock"
      /\ g[c].saw /\ g[c].nread = 0 /\ g'[c].nread = 1
      /\ DRDY
      /\ g'[c].read = VAL /\ RandomNumber' = VAL /\ out'[c] = VAL
      /\ status[c] = "HAL_OK"

\* C15 (Spec): a HAL_RNG_GenerateRandomNumber that returns HAL_OK has read
\* the value register exactly once, after seeing the data-ready flag set,
\* and the value stored in the handle and the value delivered are that
\* read; one that fails (timeout, handle not READY, lock held) has read
\* nothing, so the flag is cleared by no failing call.
C15_SingleRead ==
  /\ [](\A c \in Ctx : C15_Reads(c))
  /\ [][C15_ReadStep]_vars

\* the Generate of main has seen the flag set and is about to read; a nested
\* call from an interrupt has failed and the flag is still pending
C15_Witness ==
  /\ pc["main"] = "gen_read"
  /\ g["main"].saw
  /\ Returned("isr", "Generate")
  /\ ret["isr"] # "HAL_OK"
  /\ g["isr"].nread = 0
  /\ DRDY
  /\ VAL = 1


\* the steps that can change State
InitEntryStep == \E c \in Ctx : pc[c] = "idle" /\ g'[c].op = "Init"

InitExitStep == \E c \in Ctx : pc[c] = "init_loop" /\ pc'[c] = "done"

DeInitStep == \E c \in Ctx : pc[c] = "idle" /\ g'[c].op = "DeInit"

GenCheckStep == \E c \in Ctx : pc[c] = "gen_check" /\ pc'[c] # "gen_check"

GenExitStep ==
  \E c \in Ctx : pc[c] \in {"gen_read", "gen_timeout"} /\ pc'[c] # pc[c]

\* C16 (Spec), as stated: State changes only from RESET to BUSY (Init), from
\* READY to BUSY (Init or Generate), from BUSY to READY (the end of Init, the
\* success or the timeout of Generate) and from any state to RESET (DeInit);
\* no step takes RESET to READY and Generate never takes a handle out of
\* RESET.
C16_Edges ==
  [][State' # State =>
       \/ State = "RESET" /\ State' = "BUSY" /\ InitEntryStep
       \/ State = "READY" /\ State' = "BUSY" /\ (InitEntryStep \/ GenCheckStep)
       \/ State = "BUSY" /\ State' = "READY" /\ (InitExitStep \/ GenExitStep)
       \/ State' = "RESET" /\ DeInitStep]_vars

\* the handle after a call of HAL_RNG_GenerateRandomNumber that found it not
\* READY with the lock free
C17_NotReadyFrame(c) ==
  (Returned(c, "Generate") /\ g[c].pre.State \in {"RESET", "BUSY"}
     /\ ~LockWasHeld(c)) =>
    /\ g[c].chk = g[c].pre.State
    /\ State = g[c].pre.State
    /\ ErrorCode = g[c].pre.ErrorCode
    /\ RandomNumber = g[c].pre.RandomNumber
    /\ ~g[c].polled /\ ~g[c].readTick
    /\ g[c].nread = 0
    /\ Lock = "UNLOCKED"
    /\ ret[c] = "HAL_ERROR"

\* a step of HAL_RNG_GenerateRandomNumber changes ErrorCode only at the
\* timeout exit and RandomNumber only at the read of the success path
C17_GenerateWrites(c) ==
  (g[c].op = "Generate" /\ g'[c].op = "Generate" /\ pc'[c] # pc[c]) =>
    /\ ErrorCode' # ErrorCode =>
         (pc[c] = "gen_timeout" /\ ErrorCode' = ErrorCode \cup {"TIMEOUT"})
    /\ RandomNumber' # RandomNumber => (pc[c] = "gen_read" /\ g[c].saw)
    /\ pc[c] = "gen_check" /\ State # "READY" =>
         (pc'[c] = "gen_unlock" /\ UNCHANGED <<rngHandle, rngRegs>>)
    /\ pc[c] = "gen_unlock" =>
         /\ Lock' = "UNLOCKED"
         /\ UNCHANGED <<State, ErrorCode, RandomNumber, rngRegs>>

\* C17 (Spec): a HAL_RNG_GenerateRandomNumber that finds the lock free and
\* the handle not READY does nothing but lock and unlock: State, ErrorCode
\* and RandomNumber are as before, neither the tick nor the data-ready flag
\* was read, and Lock is UNLOCKED on return.  A step of the function changes
\* ErrorCode only at the timeout exit and RandomNumber only at the read of
\* the success path.
C17_NotReadyOnlyLocks ==
  /\ [](\A c \in Ctx : C17_NotReadyFrame(c))
  /\ [][\A c \in Ctx : C17_GenerateWrites(c)]_vars

\* an interrupt has called Generate during the divider loop of the Init of
\* main (BUSY, lock free), after a timeout had set the TIMEOUT bit
C17_Witness ==
  /\ Returned("isr", "Generate")
  /\ g["isr"].chk = "BUSY"
  /\ pc["main"] = "init_loop"
  /\ ErrorCode = {"TIMEOUT"}
  /\ Lock = "UNLOCKED"
  /\ DRDY

\* C18 (SeqSpec): with calls that do not overlap, from the zero-initialized
\* handle, between calls State is RESET or READY and Lock is UNLOCKED; a
\* HAL_RNG_GenerateRandomNumber that has returned has released the lock, and
\* State is BUSY only while a call is in progress.
C18_BetweenCalls ==
  /\ pc["main"] \in {"idle", "done"} =>
       (State \in {"RESET", "READY"} /\ Lock = "UNLOCKED")
  /\ Returned("main", "Generate") => Lock = "UNLOCKED"
  /\ State = "BUSY" => InCall("main")
  /\ Lock = "LOCKED" => (InCall("main") /\ g["main"].op = "Generate")

\* a Generate that found the handle in RESET, after a DeInit that followed a
\* successful Generate, has returned with the lock free
C18_Witness ==
  /\ Returned("main", "Generate")
  /\ g["main"].chk = "RESET"
  /\ last.delivered # <<>>
  /\ Lock = "UNLOCKED"

\* C19 (Spec), as stated: once HAL_RNG_DeInit has put State to RESET it stays
\* RESET, with the peripheral disabled, until a HAL_RNG_Init changes it,
\* also when the DeInit was called by an interrupt during the poll of a
\* Generate of main: the resumed Generate does not put State to READY and
\* returns no success from the disabled peripheral.
C19_StaysReset ==
  /\ []((State = "RESET" /\ \A c \in Ctx : pc[c] # "init_loop") => ~enabled)
  /\ []((Returned("main", "Generate") /\ ret["main"] = "HAL_OK") => enabled)
  /\ [][(State = "RESET" /\ State' # "RESET") =>
         (InitEntryStep \/ InitExitStep)]_vars

\* the start tick of the call of c is within 2 ticks of the largest value
NearMax(c) ==
  /\ tickstart[c].hi = Word16 - 1
  /\ tickstart[c].lo >= Word16 - 1 - RNG_TIMEOUT_VALUE

\* C20 (SeqSpec): for a start tick within 2 ticks of 2^32 - 1 the elapsed
\* time of the timeout test is the number of tick increments since the
\* start, also after the counter has wrapped: the test passes while at most
\* 2 increments have happened and fails at the first test after more, so the
\* call times out neither at once nor never.
C20_WrapAround ==
  (g["main"].op = "Generate" /\ g["main"].readTick /\ NearMax("main")) =>
    /\ pc["main"] # "done" =>
         TickSub(tick, tickstart["main"]) = Tick32(0, nticks - g["main"].n0)
    /\ pc["main"] = "gen_tchk" => (Timeout("main") <=> Late("main"))
    /\ ~g["main"].toEarly
    /\ ~g["main"].passLate
    /\ g["main"].tout => nticks - g["main"].n0 > RNG_TIMEOUT_VALUE

\* a call that started at 2^32 - 2 has passed the test with the counter
\* wrapped to 0, 2 increments after the start, and then succeeded
C20_Witness ==
  /\ Returned("main", "Generate")
  /\ ret["main"] = "HAL_OK"
  /\ tickstart["main"] = Tick32(Word16 - 1, Word16 - 2)
  /\ g["main"].atLimit
  /\ tick.hi = 0


\* 2^n
Pow2(n) ==
  LET pow[i \in 0..n] == IF i = 0 THEN 1 ELSE 2 * pow[i - 1]
  IN  pow[n]

\* the data bits of a frame of word length l: 9, 8 or 7
FrameBits(l) ==
  CASE l = UART_WORDLENGTH_9B -> 9
    [] l = UART_WORDLENGTH_8B -> 8
    [] l = UART_WORDLENGTH_7B -> 7

\* the data bits left to the application: one less when a parity bit is sent
DataBits(l, p) == IF p = "NONE" THEN FrameBits(l) ELSE FrameBits(l) - 1

\* a step of UART_MASK_COMPUTATION
C21_MaskStep == maskIn'.n # maskIn.n

\* C21 (UartSpec): UART_MASK_COMPUTATION sets Mask to 2^n - 1, n the number
\* of data bits of the configured word length (9, 8 or 7) less 1 when parity
\* is enabled, that is 0x1FF / 0x0FF for 9 bits, 0x0FF / 0x07F for 8 bits and
\* 0x07F / 0x03F for 7 bits (no parity / parity), and to 0 for a word length
\* that is none of the three encodings; it changes no other field of the
\* handle and no register.
C21_MaskComputation ==
  [][C21_MaskStep =>
       /\ IS_UART_WORD_LENGTH(WordLength) =>
            /\ Mask' = Pow2(DataBits(WordLength, Parity)) - 1
            /\ Mask' = CASE WordLength = UART_WORDLENGTH_9B ->
                             IF Parity = "NONE" THEN 511 ELSE 255
                          [] WordLength = UART_WORDLENGTH_8B ->
                             IF Parity = "NONE" THEN 255 ELSE 127
                          [] WordLength = UART_WORDLENGTH_7B ->
                             IF Parity = "NONE" THEN 127 ELSE 63
       /\ ~IS_UART_WORD_LENGTH(WordLength) => Mask' = 0
       /\ UNCHANGED <<WordLength, Parity, CR1, CR3, fifoSet>>
       /\ UNCHANGED <<rngHandle, rngHw, rngCtx>>]_vars

\* the mask of a 7-bit frame with parity was computed: 6 data bits, 0x3F
C21_Witness ==
  /\ maskIn = [l |-> UART_WORDLENGTH_7B, p |-> "ODD", n |-> 1]
  /\ WordLength = UART_WORDLENGTH_7B
  /\ Parity = "ODD"
  /\ Mask = 63

=============================================================================
